---- MODULE Spec2Model ----
(***************************************************************************)
(* Identifiers of swc_ecma_ast (crates/swc_ecma_ast/src/ident.rs):         *)
(*   - the character classifier and the reserved-word tables,              *)
(*   - Ident::verify_symbol,                                               *)
(*   - Ident / Id / BindingIdent values, their equality, hashing and       *)
(*     conversions,                                                        *)
(*   - the scoped thread-local EQ_IGNORE_SPAN_IGNORE_CTXT and              *)
(*     Ident::within_ignored_ctxt.                                         *)
(* A character is its code point; a string is a sequence of code points.   *)
(***************************************************************************)
EXTENDS Integers, Sequences, FiniteSets, TLC

VARIABLES
    s,        \* verify_symbol: the argument
    res,      \* verify_symbol(s)
    res2,     \* verify_symbol applied to the corrected string of res
    pcSym,    \* position of the verify_symbol caller
    ch,       \* classifier: the character classified
    cls,      \* classifier: [start, cont] for ch
    x,        \* a BindingIdent
    y,        \* a BindingIdent
    out,      \* result of the last operation applied to x, y
    pcId,     \* position of the caller of the Ident operations
    cell,     \* EQ_IGNORE_SPAN_IGNORE_CTXT, one cell per thread: is it set?
    saved,    \* per thread, the `prev` values held by the live Reset guards
    lastEq    \* the eq_ignore_span call that has just returned, if any

symVars == <<s, res, res2, pcSym>>
chVars == <<ch, cls>>
idVars == <<x, y, out, pcId>>
tlsVars == <<cell, saved, lastEq>>
vars == <<s, res, res2, pcSym, ch, cls, x, y, out, pcId, cell, saved, lastEq>>

(***************************************************************************)
(* Bounds of the model.                                                    *)
(***************************************************************************)
MaxLen == 4       \* longest argument of verify_symbol
MaxPos == 1       \* largest BytePos of a span
MaxCtxt == 1      \* largest SyntaxContext
MaxDepth == 2     \* deepest nesting of within_ignored_ctxt
NumThreads == 2   \* threads

(***************************************************************************)
(* Character classifier.                                                   *)
(***************************************************************************)
T == TRUE
F == FALSE

ASCII_START ==
    << F, F, F, F, F, F, F, F, F, F, F, F, F, F, F, F,
       F, F, F, F, F, F, F, F, F, F, F, F, F, F, F, F,
       F, F, F, F, T, F, F, F, F, F, F, F, F, F, F, F,
       F, F, F, F, F, F, F, F, F, F, F, F, F, F, F, F,
       F, T, T, T, T, T, T, T, T, T, T, T, T, T, T, T,
       T, T, T, T, T, T, T, T, T, T, T, F, F, F, F, T,
       F, T, T, T, T, T, T, T, T, T, T, T, T, T, T, T,
       T, T, T, T, T, T, T, T, T, T, T, F, F, F, F, F >>

ASCII_CONTINUE ==
    << F, F, F, F, F, F, F, F, F, F, F, F, F, F, F, F,
       F, F, F, F, F, F, F, F, F, F, F, F, F, F, F, F,
       F, F, F, F, T, F, F, F, F, F, F, F, F, F, F, F,
       T, T, T, T, T, T, T, T, T, T, F, F, F, F, F, F,
       F, T, T, T, T, T, T, T, T, T, T, T, T, T, T, T,
       T, T, T, T, T, T, T, T, T, T, T, F, F, F, F, T,
       F, T, T, T, T, T, T, T, T, T, T, T, T, T, T, T,
       T, T, T, T, T, T, T, T, T, T, T, F, F, F, F, F >>

ZWNJ == 8204  \* '\u{200c}'
ZWJ == 8205   \* '\u{200d}'

is_ascii(c) == c < 128

\* UnicodeID::is_id_start and UnicodeID::is_id_continue (crate unicode_id) on
\* the code points above the ASCII range that the model distinguishes:
\* U+00E9 (ID_Start, ID_Continue), U+0300 (ID_Continue only), U+00D7 (neither),
\* U+200C and U+200D (neither)
is_id_start(c) == c \in {233}
is_id_continue(c) == c \in {233, 768}

is_valid_start_reads_continue_table(c) ==
    IF is_ascii(c) THEN ASCII_CONTINUE[c + 1] ELSE is_id_start(c)

is_valid_start(c) ==
    IF is_ascii(c) THEN ASCII_START[c + 1] ELSE is_id_start(c)

is_valid_continue(c) ==
    IF is_ascii(c) THEN ASCII_CONTINUE[c + 1]
    ELSE is_id_continue(c) \/ c = ZWNJ \/ c = ZWJ

(***************************************************************************)
(* Reserved-word tables (IdentExt).                                        *)
(***************************************************************************)
RESERVED ==
    { <<98, 114, 101, 97, 107>>,  \* "break"
      <<99, 97, 115, 101>>,  \* "case"
      <<99, 97, 116, 99, 104>>,  \* "catch"
      <<99, 108, 97, 115, 115>>,  \* "class"
      <<99, 111, 110, 115, 116>>,  \* "const"
      <<99, 111, 110, 116, 105, 110, 117, 101>>,  \* "continue"
      <<100, 101, 98, 117, 103, 103, 101, 114>>,  \* "debugger"
      <<100, 101, 102, 97, 117, 108, 116>>,  \* "default"
      <<100, 101, 108, 101, 116, 101>>,  \* "delete"
      <<100, 111>>,  \* "do"
      <<101, 108, 115, 101>>,  \* "else"
      <<101, 110, 117, 109>>,  \* "enum"
      <<101, 120, 112, 111, 114, 116>>,  \* "export"
      <<101, 120, 116, 101, 110, 100, 115>>,  \* "extends"
      <<102, 97, 108, 115, 101>>,  \* "false"
      <<102, 105, 110, 97, 108, 108, 121>>,  \* "finally"
      <<102, 111, 114>>,  \* "for"
      <<102, 117, 110, 99, 116, 105, 111, 110>>,  \* "function"
      <<105, 102>>,  \* "if"
      <<105, 109, 112, 111, 114, 116>>,  \* "import"
      <<105, 110>>,  \* "in"
      <<105, 110, 115, 116, 97, 110, 99, 101, 111, 102>>,  \* "instanceof"
      <<110, 101, 119>>,  \* "new"
      <<110, 117, 108, 108>>,  \* "null"
      <<112, 97, 99, 107, 97, 103, 101>>,  \* "package"
      <<114, 101, 116, 117, 114, 110>>,  \* "return"
      <<115, 117, 112, 101, 114>>,  \* "super"
      <<115, 119, 105, 116, 99, 104>>,  \* "switch"
      <<116, 104, 105, 115>>,  \* "this"
      <<116, 104, 114, 111, 119>>,  \* "throw"
      <<116, 114, 117, 101>>,  \* "true"
      <<116, 114, 121>>,  \* "try"
      <<116, 121, 112, 101, 111, 102>>,  \* "typeof"
      <<118, 97, 114>>,  \* "var"
      <<118, 111, 105, 100>>,  \* "void"
      <<119, 104, 105, 108, 101>>,  \* "while"
      <<119, 105, 116, 104>> }  \* "with"

RESSERVED_IN_STRICT_MODE ==
    { <<105, 109, 112, 108, 101, 109, 101, 110, 116, 115>>,  \* "implements"
      <<105, 110, 116, 101, 114, 102, 97, 99, 101>>,  \* "interface"
      <<108, 101, 116>>,  \* "let"
      <<112, 97, 99, 107, 97, 103, 101>>,  \* "package"
      <<112, 114, 105, 118, 97, 116, 101>>,  \* "private"
      <<112, 114, 111, 116, 101, 99, 116, 101, 100>>,  \* "protected"
      <<112, 117, 98, 108, 105, 99>>,  \* "public"
      <<115, 116, 97, 116, 105, 99>>,  \* "static"
      <<121, 105, 101, 108, 100>> }  \* "yield"

RESERVED_IN_ES3 ==
    { <<97, 98, 115, 116, 114, 97, 99, 116>>,  \* "abstract"
      <<98, 111, 111, 108, 101, 97, 110>>,  \* "boolean"
      <<98, 121, 116, 101>>,  \* "byte"
      <<99, 104, 97, 114>>,  \* "char"
      <<100, 111, 117, 98, 108, 101>>,  \* "double"
      <<102, 105, 110, 97, 108>>,  \* "final"
      <<102, 108, 111, 97, 116>>,  \* "float"
      <<103, 111, 116, 111>>,  \* "goto"
      <<105, 110, 116>>,  \* "int"
      <<108, 111, 110, 103>>,  \* "long"
      <<110, 97, 116, 105, 118, 101>>,  \* "native"
      <<115, 104, 111, 114, 116>>,  \* "short"
      <<115, 121, 110, 99, 104, 114, 111, 110, 105, 122, 101, 100>>,  \* "synchronized"
      <<116, 104, 114, 111, 119, 115>>,  \* "throws"
      <<116, 114, 97, 110, 115, 105, 101, 110, 116>>,  \* "transient"
      <<118, 111, 108, 97, 116, 105, 108, 101>> }  \* "volatile"

AWAIT == <<97, 119, 97, 105, 116>>
STRICT_BIND == { <<101, 118, 97, 108>>, <<97, 114, 103, 117, 109, 101, 110, 116, 115>> }  \* "eval", "arguments"

is_reserved(w) == w \in RESERVED

is_reserved_in_strict_mode(w, is_module) ==
    IF is_module /\ w = AWAIT THEN TRUE ELSE w \in RESSERVED_IN_STRICT_MODE

is_reserved_in_strict_bind(w) == w \in STRICT_BIND

is_reserved_in_es3(w) == w \in RESERVED_IN_ES3

(***************************************************************************)
(* Ident::verify_symbol.                                                   *)
(***************************************************************************)
Ok == [ok |-> TRUE, err |-> <<>>]
Err(buf) == [ok |-> FALSE, err |-> buf]
NoResult == [ok |-> FALSE, err |-> <<>>]   \* verify_symbol has not been called

UNDERSCORE == 95  \* '_'

is_reserved_symbol_drops_reserved(w) ==
    is_reserved_in_strict_mode(w, TRUE) \/ is_reserved_in_strict_bind(w)

is_reserved_symbol(w) ==
    is_reserved(w) \/ is_reserved_in_strict_mode(w, TRUE) \/ is_reserved_in_strict_bind(w)

\* chars.all(Self::is_valid_continue) on the characters from position i on
RECURSIVE chars_all_valid_continue(_, _)
chars_all_valid_continue(w, i) ==
    IF i > Len(w) THEN TRUE
    ELSE IF is_valid_continue(w[i]) THEN chars_all_valid_continue(w, i + 1)
    ELSE FALSE

\* the fast accept check: `if let Some(first) = chars.next() { ... }`
is_valid_ident(w) ==
    IF Len(w) > 0
    THEN is_valid_start(w[1]) /\ chars_all_valid_continue(w, 2)
    ELSE FALSE

\* the repair loop `for c in s.chars()`, from position i on
RECURSIVE repair_loop(_, _, _, _)
repair_loop(w, i, has_start, buf) ==
    IF i > Len(w) THEN buf
    ELSE IF ~has_start /\ is_valid_start(w[i])
         THEN repair_loop(w, i + 1, TRUE, Append(buf, w[i]))
    ELSE IF is_valid_continue(w[i])
         THEN repair_loop(w, i + 1, has_start, Append(buf, w[i]))
    ELSE repair_loop(w, i + 1, has_start, buf)

verify_symbol(w) ==
    IF is_reserved_symbol(w) THEN Err(<<UNDERSCORE>> \o w)
    ELSE IF is_valid_ident(w) THEN Ok
    ELSE LET filtered == repair_loop(w, 1, FALSE, <<>>)
             buf == IF filtered = <<>> THEN <<UNDERSCORE>> ELSE filtered
         IN  IF is_reserved_symbol(buf) THEN Err(<<UNDERSCORE>> \o buf)
             ELSE Err(buf)

(***************************************************************************)
(* Callers of the pure functions: the argument is drawn in the initial     *)
(* state and the function is applied by an action.                         *)
(***************************************************************************)
\* 'a' 'b' 'c' 'd' 'o' '1' '-' U+00E9 U+200D
Alphabet == {97, 98, 99, 100, 111, 49, 45, 233, ZWJ}
Strings == UNION {[1..n -> Alphabet] : n \in 0..MaxLen}
CodePoints == 0..127 \cup {215, 233, 768, ZWNJ, ZWJ}

NoClass == [done |-> FALSE, start |-> FALSE, cont |-> FALSE]

IdleSym == s = <<>> /\ res = NoResult /\ res2 = NoResult /\ pcSym = "idle"
IdleCh == ch = 0 /\ cls = NoClass

InitSymOnly ==
    /\ s \in Strings
    /\ res = NoResult
    /\ res2 = NoResult
    /\ pcSym = "start"

InitChOnly ==
    /\ ch \in CodePoints
    /\ cls = NoClass

VerifySymbol ==
    /\ pcSym = "start"
    /\ res' = verify_symbol(s)
    /\ pcSym' = "verified"
    /\ UNCHANGED <<s, res2, chVars, idVars, tlsVars>>

\* the caller verifies the corrected string it got back
VerifyCorrected ==
    /\ pcSym = "verified"
    /\ ~res.ok
    /\ res2' = verify_symbol(res.err)
    /\ pcSym' = "reverified"
    /\ UNCHANGED <<s, res, chVars, idVars, tlsVars>>

Classify ==
    /\ ~cls.done
    /\ cls' = [done |-> TRUE, start |-> is_valid_start(ch),
               cont |-> is_valid_continue(ch)]
    /\ UNCHANGED <<ch, symVars, idVars, tlsVars>>

(***************************************************************************)
(* Span, Ident, Id, BindingIdent.                                          *)
(***************************************************************************)
DUMMY == 0        \* BytePos::DUMMY
EMPTY_CTXT == 0   \* SyntaxContext::empty(), the ctxt of DUMMY_SP

Positions == 0..MaxPos
Ctxts == 0..MaxCtxt
Syms == {<<97>>, <<98>>}        \* "a", "b"
TypeAnns == {"None", "number"}  \* Option<Box<TsTypeAnn>>: None, Some(number)

Spans == {sp \in [lo : Positions, hi : Positions, ctxt : Ctxts] : sp.lo <= sp.hi}
Idents == [span : Spans, sym : Syms, optional : BOOLEAN]
Ids == Syms \X Ctxts
BindingIdents == [id : Idents, type_ann : TypeAnns]

DUMMY_SP == [lo |-> DUMMY, hi |-> DUMMY, ctxt |-> EMPTY_CTXT]
with_ctxt(span, ctxt) == [span EXCEPT !.ctxt = ctxt]

Ident_new(sym, span) == [span |-> span, sym |-> sym, optional |-> FALSE]

Ident_from_Id_drops_ctxt(id) == Ident_new(id[1], DUMMY_SP)

Ident_from_Id(id) == Ident_new(id[1], with_ctxt(DUMMY_SP, id[2]))

Id_from_Ident(i) == <<i.sym, i.span.ctxt>>

without_loc(i) == [i EXCEPT !.span.lo = DUMMY, !.span.hi = DUMMY]

to_id_keeps_lo(i) == <<i.sym, i.span.ctxt + i.span.lo>>

to_id(i) == <<i.sym, i.span.ctxt>>

\* #[ast_node] derives PartialEq: every field is compared
Ident_eq(a, b) == a.span = b.span /\ a.sym = b.sym /\ a.optional = b.optional

\* #[derive(Hash)]: what the fields write to the Hasher, in declaration order
Ident_hash(a) == <<a.span.lo, a.span.hi, a.span.ctxt, a.sym, a.optional>>

Ident_eq_ignore_span_ignores_flag(a, b, ignore_ctxt) ==
    IF a.sym # b.sym THEN FALSE
    ELSE a.span.ctxt = b.span.ctxt

\* ignore_ctxt is EQ_IGNORE_SPAN_IGNORE_CTXT.is_set() on the calling thread
Ident_eq_ignore_span(a, b, ignore_ctxt) ==
    IF a.sym # b.sym THEN FALSE
    ELSE IF a.span.ctxt = b.span.ctxt THEN TRUE
    ELSE ignore_ctxt

BindingIdent_to_id(bi) == to_id(bi.id)

BindingIdent_from_Ident(id) == [id |-> id, type_ann |-> "None"]
Ident_from_BindingIdent(bi) == bi.id

BindingIdent_eq_ignores_type_ann(p, q) == Ident_eq(p.id, q.id)

\* #[derive(PartialEq)] on BindingIdent: id and type_ann are compared
BindingIdent_eq(p, q) == Ident_eq(p.id, q.id) /\ p.type_ann = q.type_ann

\* #[derive(EqIgnoreSpan)] on BindingIdent: id and type_ann are compared
BindingIdent_eq_ignore_span(p, q, ignore_ctxt) ==
    Ident_eq_ignore_span(p.id, q.id, ignore_ctxt) /\ p.type_ann = q.type_ann

(***************************************************************************)
(* EQ_IGNORE_SPAN_IGNORE_CTXT and Ident::within_ignored_ctxt.              *)
(* ScopedKey::set saves the cell's previous value in a Reset guard, sets   *)
(* the cell and runs op; the guard's drop puts the previous value back,    *)
(* when op returns and when it unwinds.                                     *)
(***************************************************************************)
Threads == 1..NumThreads
MainThread == CHOOSE t \in Threads : \A u \in Threads : t <= u

is_set_of_any_thread(t) == \E u \in Threads : cell[u]

is_set(t) == cell[t]

Reset_drop_clears(prev) == FALSE

\* the value Reset::drop stores in the cell
Reset_drop(prev) == prev

\* Ident::dummy() and BindingIdent::dummy()
Ident_dummy == Ident_new(<<>>, DUMMY_SP)
BindingIdent_dummy == [id |-> Ident_dummy, type_ann |-> "None"]

NoOut == [op |-> "none"]
NoCall == [thread |-> 0, a |-> Ident_dummy, b |-> Ident_dummy, result |-> FALSE]

IdleId ==
    /\ x = BindingIdent_dummy
    /\ y = BindingIdent_dummy
    /\ out = NoOut
    /\ pcId = "idle"

InitTls ==
    /\ cell = [t \in Threads |-> FALSE]
    /\ saved = [t \in Threads |-> <<>>]
    /\ lastEq = NoCall

\* the thread is not at the return of an eq_ignore_span call
Running(t) == lastEq.thread # t

\* within_ignored_ctxt(op): entry, up to the call of op
Enter(t) ==
    /\ Running(t)
    /\ Len(saved[t]) < MaxDepth
    /\ saved' = [saved EXCEPT ![t] = <<cell[t]>> \o @]
    /\ cell' = [cell EXCEPT ![t] = TRUE]
    /\ UNCHANGED <<lastEq, symVars, chVars, idVars>>

\* within_ignored_ctxt(op): op returns
Return(t) ==
    /\ Running(t)
    /\ saved[t] # <<>>
    /\ cell' = [cell EXCEPT ![t] = Reset_drop(Head(saved[t]))]
    /\ saved' = [saved EXCEPT ![t] = Tail(@)]
    /\ UNCHANGED <<lastEq, symVars, chVars, idVars>>

\* within_ignored_ctxt(op): op panics and the stack unwinds through the scope
Unwind(t) ==
    /\ Running(t)
    /\ saved[t] # <<>>
    /\ cell' = [cell EXCEPT ![t] = Reset_drop(Head(saved[t]))]
    /\ saved' = [saved EXCEPT ![t] = Tail(@)]
    /\ UNCHANGED <<lastEq, symVars, chVars, idVars>>

\* a.eq_ignore_span(&b) on thread t
EqIgnoreSpan(t) ==
    /\ lastEq = NoCall
    /\ \E a \in Idents, b \in Idents :
          lastEq' = [thread |-> t, a |-> a, b |-> b,
                     result |-> Ident_eq_ignore_span(a, b, is_set(t))]
    /\ UNCHANGED <<cell, saved, symVars, chVars, idVars>>

\* the caller takes the result and goes on
TakeResult(t) ==
    /\ lastEq.thread = t
    /\ lastEq' = NoCall
    /\ UNCHANGED <<cell, saved, symVars, chVars, idVars>>

(***************************************************************************)
(* A caller of the Ident and BindingIdent operations on the main thread.   *)
(***************************************************************************)
InitIdOnly ==
    /\ x \in BindingIdents
    /\ y \in BindingIdents
    /\ out = NoOut
    /\ pcId = "init"

\* x.id == y.id, the hashes of x.id and y.id, and x == y
CompareEq ==
    /\ pcId = "init"
    /\ out' = [op |-> "eq",
               ident |-> Ident_eq(x.id, y.id),
               hashX |-> Ident_hash(x.id),
               hashY |-> Ident_hash(y.id),
               binding |-> BindingIdent_eq(x, y)]
    /\ pcId' = "eq"
    /\ UNCHANGED <<x, y, symVars, chVars, tlsVars>>

\* x.id.eq_ignore_span(&y.id) and x.eq_ignore_span(&y)
CompareEqIgnoreSpan ==
    /\ pcId = "init"
    /\ out' = [op |-> "eq_ignore_span",
               ident |-> Ident_eq_ignore_span(x.id, y.id, is_set(MainThread)),
               binding |-> BindingIdent_eq_ignore_span(x, y, is_set(MainThread))]
    /\ pcId' = "eq_ignore_span"
    /\ UNCHANGED <<x, y, symVars, chVars, tlsVars>>

\* x.id.to_id(), y.id.to_id() and x.to_id()
ToId ==
    /\ pcId = "init"
    /\ out' = [op |-> "to_id",
               idX |-> to_id(x.id),
               idY |-> to_id(y.id),
               bindingX |-> BindingIdent_to_id(x)]
    /\ pcId' = "to_id"
    /\ UNCHANGED <<x, y, symVars, chVars, tlsVars>>

\* Ident::from(id) for the id just obtained
FromId ==
    /\ pcId = "to_id"
    /\ out' = [op |-> "from_id",
               id |-> out.idX,
               ident |-> Ident_from_Id(out.idX)]
    /\ pcId' = "from_id"
    /\ UNCHANGED <<x, y, symVars, chVars, tlsVars>>

\* .to_id() of the Ident just rebuilt
ToIdAgain ==
    /\ pcId = "from_id"
    /\ out' = [op |-> "roundtrip",
               id |-> out.id,
               id2 |-> to_id(out.ident)]
    /\ pcId' = "roundtrip"
    /\ UNCHANGED <<x, y, symVars, chVars, tlsVars>>

(***************************************************************************)
(* Specifications.                                                         *)
(***************************************************************************)
InitSym == InitSymOnly /\ IdleCh /\ IdleId /\ InitTls
NextSym == VerifySymbol \/ VerifyCorrected
SpecSym == InitSym /\ [][NextSym]_vars

InitChar == InitChOnly /\ IdleSym /\ IdleId /\ InitTls
NextChar == Classify
SpecChar == InitChar /\ [][NextChar]_vars

InitIdent == InitIdOnly /\ IdleSym /\ IdleCh /\ InitTls
NextIdent ==
    \/ CompareEq
    \/ CompareEqIgnoreSpan
    \/ ToId
    \/ FromId
    \/ ToIdAgain
    \/ Enter(MainThread)
    \/ Return(MainThread)
    \/ Unwind(MainThread)
SpecIdent == InitIdent /\ [][NextIdent]_vars

InitScope == InitTls /\ IdleSym /\ IdleCh /\ IdleId
NextScope ==
    \E t \in Threads :
        \/ Enter(t)
        \/ Return(t)
        \/ Unwind(t)
        \/ EqIgnoreSpan(t)
        \/ TakeResult(t)
SpecScope == InitScope /\ [][NextScope]_vars

TypeOK ==
    /\ s \in Seq(Nat) /\ res.ok \in BOOLEAN /\ res2.ok \in BOOLEAN
    /\ cls.done \in BOOLEAN
    /\ cell \in [Threads -> BOOLEAN]
    /\ \A t \in Threads : Len(saved[t]) <= MaxDepth
    /\ lastEq.thread \in 0..NumThreads

(***************************************************************************)
(* Properties of verify_symbol (SpecSym).                                  *)
(***************************************************************************)
Verified == pcSym \in {"verified", "reverified"}

\* a legal, non-reserved identifier
LegalSymbol(w) ==
    /\ Len(w) > 0
    /\ is_valid_start(w[1])
    /\ \A i \in 2..Len(w) : is_valid_continue(w[i])
    /\ ~(is_reserved(w) \/ is_reserved_in_strict_mode(w, TRUE)
            \/ is_reserved_in_strict_bind(w))

\* C1: verify_symbol(s) is Ok(()) exactly when s is non-empty, starts with a
\* valid start character, continues with valid continue characters only and is
\* not reserved (is_reserved, is_reserved_in_strict_mode(true) or
\* is_reserved_in_strict_bind); otherwise it is Err of a non-empty string.
C1_OkIffLegal ==
    Verified =>
        /\ res.ok <=> LegalSymbol(s)
        /\ ~res.ok => Len(res.err) > 0

\* C1 witness: "..1.." with a digit after the first character was accepted
C1_Witness ==
    /\ pcSym = "verified"
    /\ res.ok
    /\ Len(s) >= 2
    /\ \E i \in 2..Len(s) : s[i] = 49

\* C2: the corrected string of a rejected s is itself accepted by
\* verify_symbol.
C2_CorrectedIsAccepted ==
    pcSym = "reverified" => res2.ok

\* position of the first valid start character of w, 0 if there is none
FirstStart(w) ==
    IF \E i \in 1..Len(w) : is_valid_start(w[i])
    THEN CHOOSE i \in 1..Len(w) :
            is_valid_start(w[i]) /\ \A j \in 1..(i - 1) : ~is_valid_start(w[j])
    ELSE 0

\* the correction as documented: everything before the first valid start
\* character is dropped, later characters are kept if they are valid continue
\* characters; "" becomes "_"; a reserved result gets a "_" in front
DocumentedCorrection(w) ==
    LET k == FirstStart(w)
        kept == IF k = 0 THEN <<>>
                ELSE <<w[k]>> \o SelectSeq(SubSeq(w, k + 1, Len(w)), is_valid_continue)
        buf == IF kept = <<>> THEN <<UNDERSCORE>> ELSE kept
    IN  IF is_reserved(buf) \/ is_reserved_in_strict_mode(buf, TRUE)
            \/ is_reserved_in_strict_bind(buf)
        THEN <<UNDERSCORE>> \o buf
        ELSE buf

\* C9: for s not reserved and rejected, the corrected string is the documented
\* correction of s; verify_symbol("1abc") gives "abc".
C9_CorrectionDropsPrefix ==
    /\ (Verified /\ ~res.ok /\ ~is_reserved_symbol(s))
            => res.err = DocumentedCorrection(s)
    /\ (Verified /\ s = <<49, 97, 98, 99>>) => res = Err(<<97, 98, 99>>)

(***************************************************************************)
(* Properties of the classifier (SpecChar).                                *)
(***************************************************************************)
AsciiLetters == 65..90 \cup 97..122
AsciiDigits == 48..57

\* C8: below 128, is_valid_start holds exactly of A-Z, a-z, '_' and '$', and
\* is_valid_continue exactly of those and 0-9; so a start character is a
\* continue character and the digits are the only continue characters that are
\* not start characters.
C8_AsciiClasses ==
    (cls.done /\ ch < 128) =>
        /\ cls.start <=> ch \in AsciiLetters \cup {95, 36}
        /\ cls.cont <=> ch \in AsciiLetters \cup AsciiDigits \cup {95, 36}
        /\ cls.start => cls.cont
        /\ (cls.cont /\ ~cls.start) <=> ch \in AsciiDigits

\* C8 witness: '$' was classified as a start character
C8_Witness == cls.done /\ ch = 36 /\ cls.start /\ cls.cont

(***************************************************************************)
(* Properties of Ident, Id and BindingIdent (SpecIdent).                   *)
(***************************************************************************)
SameBinding == x.id.sym = y.id.sym /\ x.id.span.ctxt = y.id.span.ctxt
SamePlace == x.id.span.lo = y.id.span.lo /\ x.id.span.hi = y.id.span.hi

\* C3 as stated: Idents with equal sym and equal span.ctxt (and the same
\* optional flag) are == and hash identically, whatever span.lo and span.hi
\* are.
C3_EqIgnoresPosition ==
    (pcId = "eq" /\ SameBinding /\ x.id.optional = y.id.optional) =>
        /\ out.ident
        /\ out.hashX = out.hashY

\* C3 amended: Idents with equal sym and equal span.ctxt have equal to_id()
\* keys and are eq_ignore_span-equal, whatever span.lo, span.hi and optional
\* are; == and Hash of Ident cover every field, so such Idents are == (and
\* write the same data to the hasher) exactly when span.lo, span.hi and
\* optional are equal too.
C3_IdIgnoresPosition ==
    /\ (pcId = "to_id" /\ SameBinding) => out.idX = out.idY
    /\ (pcId = "eq_ignore_span" /\ SameBinding) => out.ident
    /\ (pcId = "eq" /\ SameBinding) =>
            /\ out.ident <=> (SamePlace /\ x.id.optional = y.id.optional)
            /\ (out.hashX = out.hashY) <=> out.ident

\* C3 witness: same sym and ctxt, different span.lo, keys compared
C3_Witness ==
    /\ pcId = "to_id"
    /\ SameBinding
    /\ x.id.span.lo # y.id.span.lo
    /\ out.idX = out.idY

\* C7: Ident::from(i.to_id()) has i's sym and ctxt and the dummy position, and
\* Ident::from(id).to_id() = id.
C7_IdRoundTrip ==
    /\ pcId = "from_id" =>
            /\ out.ident.sym = x.id.sym
            /\ out.ident.span.ctxt = x.id.span.ctxt
            /\ out.ident.span.lo = DUMMY
            /\ out.ident.span.hi = DUMMY
    /\ pcId = "roundtrip" => out.id2 = out.id

\* C7 witness: an Ident with a real position and a non-empty ctxt was rebuilt
C7_Witness ==
    /\ pcId = "from_id"
    /\ x.id.span.lo # DUMMY
    /\ x.id.span.ctxt # EMPTY_CTXT
    /\ out.ident.span.ctxt = x.id.span.ctxt

Called == lastEq.thread # 0
SameSym == lastEq.a.sym = lastEq.b.sym
SameCtxt == lastEq.a.span.ctxt = lastEq.b.span.ctxt
InScope(t) == saved[t] # <<>>

\* C4: a.eq_ignore_span(b) is true exactly when the syms are equal and the
\* ctxts are equal or the flag is set on the calling thread.
C4_EqIgnoreSpan ==
    Called => (lastEq.result <=> (SameSym /\ (SameCtxt \/ cell[lastEq.thread])))

\* C4 witness: different ctxt, position and optional flag, equal under the flag
C4_Witness ==
    /\ Called
    /\ lastEq.result
    /\ ~SameCtxt
    /\ lastEq.a.span.lo # lastEq.b.span.lo
    /\ lastEq.a.optional # lastEq.b.optional

\* C5: the flag of a thread is set exactly while a within_ignored_ctxt scope
\* is active on it, and a call outside every scope distinguishes ctxts.
C5_FlagIffInScope ==
    /\ \A t \in Threads : cell[t] <=> InScope(t)
    /\ (Called /\ ~InScope(lastEq.thread) /\ SameSym /\ ~SameCtxt) => ~lastEq.result

\* C5 witness: a scope nested in another one is active
C5_Witness ==
    \E t \in Threads : cell[t] /\ Len(saved[t]) >= 2 /\ saved[t][1]

\* C6: a call on a thread outside every scope distinguishes ctxts while
\* another thread is inside a scope.
C6_FlagIsPerThread ==
    (/\ Called
     /\ ~InScope(lastEq.thread)
     /\ \E u \in Threads : u # lastEq.thread /\ InScope(u)
     /\ SameSym
     /\ ~SameCtxt) => ~lastEq.result

\* C6 witness: such a call has returned false
C6_Witness ==
    /\ Called
    /\ ~InScope(lastEq.thread)
    /\ \E u \in Threads : u # lastEq.thread /\ InScope(u) /\ cell[u]
    /\ SameSym
    /\ ~SameCtxt
    /\ ~lastEq.result

====
